---------------------------- MODULE Spec2Model ----------------------------
(***************************************************************************)
(* A model of btrfs-subv-backup.py: save mode (get_fs_info, the subvolume   *)
(* scan of get_subvol_list with _ismount, the write of the snapshot file)  *)
(* and the restore side (restore_subvol, convert_dir_to_subv, copytree,    *)
(* the loop of main, run once or twice).                                   *)
(*                                                                         *)
(* Strings are sequences of code points, so that Python's string order,    *)
(* os.path.join, lstrip and the split of a path into its components are    *)
(* computed and not assumed.  A filesystem is a function from absolute     *)
(* paths (sequences of components) to nodes.                               *)
(***************************************************************************)
EXTENDS Integers, Sequences, FiniteSets, TLC

VARIABLES
    fs,        \* the filesystem: absolute component path -> node
    mtab,      \* /proc/mounts: the sequence of its lines
    mpath,     \* fsinfo['path'] / args.path: the mount point, a string
    pc,        \* position of the running operation
    walk,      \* get_subvol_list: directories os.walk has still to yield
    subvolumes,\* ret['subvolumes'] (save) / state['subvolumes'] (restore)
    err,       \* the exception that ended the operation, "" for none
    env,       \* args.method, and whether os.geteuid() == 0
    idx,       \* the restore loop's position in state['subvolumes']
    cv,        \* convert_dir_to_subv's locals: dest, temppath, copypath, oldpath
    log,       \* the calls issued so far that create, copy, rename or delete
    faults,    \* the collaborator and OS calls that were made to fail
    fs0,       \* the filesystem when the run started
    fs1,       \* the filesystem when the current restore_subvol was entered
    run        \* which run of the program this is: the first, or the one after it

vars == <<fs, mtab, mpath, pc, walk, subvolumes, err, env, idx, cv, log, faults, fs0, fs1,
          run>>

\* What the scan leaves alone, and what the restore side leaves alone.
restoreVars == <<env, idx, cv, log, faults, fs0, fs1, run>>

---------------------------------------------------------------------------
(* Bounds of the model. *)

\* Directories in an initial tree of the scan, and their depth below the
\* mount point.
MaxDirs == 3
MaxDepth == 2

---------------------------------------------------------------------------
(* Strings. *)

\* '/' as used by os.path and by lstrip('/') at line 174.
Slash == 47

\* The inode number of a subvolume root (lines 172, 248).
SubvolIno == 256

\* The inode number given here to every ordinary directory, file and link.
PlainIno == SubvolIno + 1

StrA == <<97>>
StrB == <<98>>
StrADash == <<97, 45>>
StrM == <<109>>

\* Python's str comparison: by code point, a proper prefix first.
RECURSIVE StrLess(_, _)
StrLess(s, t) ==
    IF t = <<>> THEN FALSE
    ELSE IF s = <<>> THEN TRUE
    ELSE IF Head(s) # Head(t) THEN Head(s) < Head(t)
    ELSE StrLess(Tail(s), Tail(t))

StrLeq(s, t) == s = t \/ StrLess(s, t)

\* str.lstrip('/')
RECURSIVE LStrip(_)
LStrip(s) == IF s # <<>> /\ Head(s) = Slash THEN LStrip(Tail(s)) ELSE s

\* os.path.join(a, b) for a relative b
Join(a, b) ==
    IF a = <<>> THEN b
    ELSE IF a[Len(a)] = Slash THEN a \o b
    ELSE a \o <<Slash>> \o b

\* s[n:]
Drop(s, n) == IF n >= Len(s) THEN <<>> ELSE SubSeq(s, n + 1, Len(s))

\* The components of a path string: split at '/', empty components dropped
\* (what os.path.abspath's normalisation and os.path.split amount to for the
\* paths used here, which hold no '.' or '..').
RECURSIVE SplitAcc(_, _, _)
SplitAcc(s, cur, acc) ==
    IF s = <<>> THEN (IF cur = <<>> THEN acc ELSE Append(acc, cur))
    ELSE IF Head(s) = Slash
         THEN SplitAcc(Tail(s), <<>>, IF cur = <<>> THEN acc ELSE Append(acc, cur))
         ELSE SplitAcc(Tail(s), Append(cur, Head(s)), acc)

Split(s) == SplitAcc(s, <<>>, <<>>)

\* The absolute path string of a component path.
RECURSIVE AbsStr(_)
AbsStr(p) ==
    IF p = <<>> THEN <<Slash>>
    ELSE IF Len(p) = 1 THEN <<Slash>> \o p[1]
    ELSE AbsStr(SubSeq(p, 1, Len(p) - 1)) \o <<Slash>> \o p[Len(p)]

\* The string of a component path relative to the mount point: "a/b".
RECURSIVE RelStr(_)
RelStr(p) ==
    IF p = <<>> THEN <<>>
    ELSE IF Len(p) = 1 THEN p[1]
    ELSE RelStr(SubSeq(p, 1, Len(p) - 1)) \o <<Slash>> \o p[Len(p)]

---------------------------------------------------------------------------
(* The filesystem. *)

Parent(p) == SubSeq(p, 1, Len(p) - 1)
Base(p) == p[Len(p)]

IsPrefix(p, q) == Len(p) <= Len(q) /\ SubSeq(q, 1, Len(p)) = p
IsAncestor(p, q) == Len(p) < Len(q) /\ IsPrefix(p, q)

Exists(f, p) == p \in DOMAIN f
IsDirKind(f, p) == Exists(f, p) /\ f[p].kind = "dir"

\* A node.  mode and mtime stand for what shutil.copystat copies; own for what
\* copy_ownership copies; 0 is what a newly created entry gets.
Node(kind, ino, xdev, stamp, data, target) ==
    [kind |-> kind, ino |-> ino, xdev |-> xdev, mode |-> stamp, mtime |-> stamp,
     own |-> stamp, data |-> data, target |-> target]

NewDir == Node("dir", PlainIno, FALSE, 0, 0, <<>>)
NewSubvol == Node("dir", SubvolIno, TRUE, 0, 0, <<>>)
NewFile == Node("file", PlainIno, FALSE, 0, 0, <<>>)

\* The entries of directory d of the given kind.
Children(f, d) == {p \in DOMAIN f : Len(p) = Len(d) + 1 /\ IsPrefix(d, p)}

\* Sorting a finite set of strings ascending.
RECURSIVE SortStr(_)
SortStr(S) ==
    IF S = {} THEN <<>>
    ELSE LET m == CHOOSE x \in S : \A y \in S : StrLeq(x, y)
         IN <<m>> \o SortStr(S \ {m})

Reverse(s) == [i \in 1..Len(s) |-> s[Len(s) + 1 - i]]

Range(s) == {s[i] : i \in 1..Len(s)}

\* convert_dir_to_subv's locals outside a conversion.
NoConversion == [dest |-> <<>>, temp |-> <<>>, copy |-> <<>>, old |-> <<>>]

---------------------------------------------------------------------------
(* Mount points. *)

\* os.path.abspath of an absolute path string.
AbsPath(s) == AbsStr(Split(s))

\* os.path.ismount: an existing directory (never a symbolic link) whose
\* st_dev differs from its parent's, or the root directory.
OsPathIsMount(f, s) ==
    LET p == Split(s)
    IN  /\ IsDirKind(f, p)
        /\ (p = <<>> \/ f[p].xdev)

IsMountNoTable(f, mt, s) == OsPathIsMount(f, s)

IsMountDeviceColumn(f, mt, s) ==
    /\ OsPathIsMount(f, s)
    /\ \E i \in 1..Len(mt) : AbsPath(mt[i].dev) = AbsPath(s)

\* _ismount (lines 87-100): os.path.ismount, and then a line of /proc/mounts
\* whose second column is the path.
IsMount(f, mt, s) ==
    /\ OsPathIsMount(f, s)
    /\ \E i \in 1..Len(mt) : AbsPath(mt[i].path) = AbsPath(s)

---------------------------------------------------------------------------
(* get_subvol_list (lines 152-178), one step per triple os.walk yields. *)

\* The names os.walk puts in dirs for directory root: the entries that are
\* directories, and the symbolic links to directories.
WalkDirs(f, d) ==
    {Base(p) : p \in {q \in Children(f, d) :
        \/ f[q].kind = "dir"
        \/ f[q].kind = "link" /\ IsDirKind(f, f[q].target)}}

\* The names os.walk puts in files: every other entry.
WalkFiles(f, d) == {Base(p) : p \in Children(f, d)} \ WalkDirs(f, d)

\* The directories os.walk descends into: those left in dirs that are not
\* symbolic links.
Descend(f, rootStr, names) ==
    SelectSeq(names, LAMBDA n : IsDirKind(f, Split(Join(rootStr, n))))

\* Lines 166-176 for the listing `names` of `rootStr`: the names excluded, and
\* the relative paths appended, in the order of the listing.
ScanExclude(f, mt, rootStr, names) ==
    {n \in Range(names) : IsMount(f, mt, Join(rootStr, n))}

ScanFoundNames(f, mt, rootStr, names) ==
    SelectSeq(names, LAMBDA n :
        /\ ~IsMount(f, mt, Join(rootStr, n))
        /\ f[Split(Join(rootStr, n))].ino = SubvolIno)

ScanFound(f, mt, mp, rootStr, names) ==
    LET found == ScanFoundNames(f, mt, rootStr, names)
    IN  [i \in 1..Len(found) |->
            Join(LStrip(Drop(rootStr, Len(mp))), found[i])]

SortedNoSort(s) == s

SortedDescending(s) == SortSeq(s, LAMBDA x, y : StrLess(y, x))

\* list.sort() of a list of strings (lines 177, 345).
Sorted(s) == SortSeq(s, StrLess)

\* Lines 161-165: the empty list, and os.walk started at fsinfo['path'].
ScanStart ==
    /\ pc = "save"
    /\ subvolumes' = <<>>
    /\ walk' = <<mpath>>
    /\ pc' = "walk"
    /\ UNCHANGED <<fs, mtab, mpath, err, restoreVars>>

\* Lines 165-176: one directory.  The order in which the directory lists its
\* entries is the filesystem's; both orders of the names are taken.
ScanStep ==
    /\ pc = "walk"
    /\ walk # <<>>
    /\ \E rev \in BOOLEAN :
        LET rootStr == Head(walk)
            asc == SortStr(WalkDirs(fs, Split(rootStr)))
            names == IF rev THEN Reverse(asc) ELSE asc
            exclude == ScanExclude(fs, mtab, rootStr, names)
            kept == SelectSeq(names, LAMBDA n : n \notin exclude)
            below == Descend(fs, rootStr, kept)
        IN  /\ subvolumes' = subvolumes \o ScanFound(fs, mtab, mpath, rootStr, names)
            /\ walk' = [i \in 1..Len(below) |-> Join(rootStr, below[i])] \o Tail(walk)
    /\ UNCHANGED <<fs, mtab, mpath, pc, err, restoreVars>>

\* Line 177-178: the walk is over, the list is sorted and returned.
ScanFinish ==
    /\ pc = "walk"
    /\ walk = <<>>
    /\ subvolumes' = Sorted(subvolumes)
    /\ pc' = "scanned"
    /\ UNCHANGED <<fs, mtab, mpath, walk, err, restoreVars>>

---------------------------------------------------------------------------
(* The trees the scan is run on. *)

ScanNames == {StrA, StrADash}

\* Relative component paths of depth at most n.
RECURSIVE RelPaths(_)
RelPaths(n) ==
    IF n = 0 THEN {<<>>}
    ELSE LET below == RelPaths(n - 1)
         IN  below \cup {Append(p, x) : p \in below, x \in ScanNames}

\* Sets of at most n directories below the mount point, each with its parent.
RECURSIVE DirSets(_)
DirSets(n) ==
    IF n = 0 THEN {{}}
    ELSE LET smaller == DirSets(n - 1)
         IN  smaller \cup
             UNION {{D \cup {p} : p \in {q \in RelPaths(MaxDepth) \ {<<>>} :
                                             Len(q) = 1 \/ Parent(q) \in D}} :
                    D \in smaller}

\* What a directory can be: an ordinary directory, a subvolume root, a mounted
\* filesystem whose root has inode 256 (btrfs) or another inode number.
Flavours == {"plain", "subvol", "mount256", "mount"}

FlavourNode(fl, stamp) ==
    CASE fl = "plain" -> Node("dir", PlainIno, FALSE, stamp, 0, <<>>)
      [] fl = "subvol" -> Node("dir", SubvolIno, TRUE, stamp, 0, <<>>)
      [] fl = "mount256" -> Node("dir", SubvolIno, TRUE, stamp, 0, <<>>)
      [] fl = "mount" -> Node("dir", PlainIno, TRUE, stamp, 0, <<>>)

\* A line of /proc/mounts: device, mount path, type, and the subvolid= option.
MountEntry(s, fstype) ==
    [dev |-> <<Slash>> \o <<100>> \o s, path |-> s, fstype |-> fstype, subvolid |-> 5]

\* The tree with directories D (relative paths) of flavours fl under the mount
\* point mp, whose own directory is a subvolume root.
TreeOf(mp, D, fl) ==
    LET root == Split(mp)
    IN  [p \in {root} \cup {root \o d : d \in D} |->
            IF p = root THEN NewSubvol
            ELSE FlavourNode(fl[Drop(p, Len(root))], Len(p))]

TableOf(mp, D, fl) ==
    LET root == Split(mp)
        mounted == {AbsStr(root \o d) : d \in {e \in D : fl[e] \in {"mount256", "mount"}}}
        lines == SortStr(mounted)
    IN  <<MountEntry(mp, "btrfs")>> \o
        [i \in 1..Len(lines) |-> MountEntry(lines[i], "btrfs")]

MountPaths == {<<Slash>>, <<Slash>> \o StrM}

\* ".btrfs-subv-backup.json" (line 337), abbreviated.
SnapshotName == <<46, 106>>

SnapshotPath(mp) == Split(Join(mp, SnapshotName))

\* A snapshot file of an earlier run, or none.
WithSnapshot(f, mp, old) ==
    IF old
    THEN [q \in DOMAIN f \cup {SnapshotPath(mp)} |->
            IF q = SnapshotPath(mp)
            THEN Node("file", PlainIno, FALSE, SubvolIno, SubvolIno, <<>>)
            ELSE f[q]]
    ELSE f

\* What /proc/mounts holds for the mount point itself: a btrfs line with a
\* subvolid= option, a btrfs line without one, a line of another filesystem
\* type, or no line.
OwnLines(mp) ==
    {<<MountEntry(mp, "btrfs")>>,
     <<[MountEntry(mp, "btrfs") EXCEPT !.subvolid = 0]>>,
     <<MountEntry(mp, "ext4")>>,
     <<>>}

InitSave ==
    /\ mpath \in MountPaths
    /\ \E D \in DirSets(MaxDirs) : \E fl \in [D -> Flavours] :
       \E own \in OwnLines(mpath) : \E old \in BOOLEAN :
        /\ fs = WithSnapshot(TreeOf(mpath, D, fl), mpath, old)
        /\ mtab = own \o Tail(TableOf(mpath, D, fl))
    /\ pc = "main"
    /\ walk = <<>>
    /\ subvolumes = <<>>
    /\ err = ""
    /\ env = [method |-> "copy", euid0 |-> FALSE]
    /\ idx = 0
    /\ cv = NoConversion
    /\ log = <<>>
    /\ faults = {}
    /\ fs0 = fs
    /\ fs1 = fs
    /\ run = 1

---------------------------------------------------------------------------
(* Filesystem calls. *)

\* Creating or removing an entry of directory d changes d's modification time.
Touch(f, d) == IF d \in DOMAIN f THEN [f EXCEPT ![d].mtime = 0] ELSE f

AddNode(f, p, node) ==
    Touch([q \in DOMAIN f \cup {p} |-> IF q = p THEN node ELSE f[q]], Parent(p))

\* The tree at p removed (shutil.rmtree, btrfs subvolume delete, os.unlink).
RemoveTree(f, p) ==
    Touch([q \in {r \in DOMAIN f : ~IsPrefix(p, r)} |-> f[q]], Parent(p))

\* os.rename(a, b), b vacant: the tree at a becomes the tree at b.
Rename(f, a, b) ==
    LET moved == {q \in DOMAIN f : IsPrefix(a, q)}
        stay == DOMAIN f \ moved
        g == [q \in stay \cup {b \o Drop(r, Len(a)) : r \in moved} |->
                IF q \in stay /\ ~IsPrefix(b, q) THEN f[q]
                ELSE f[a \o Drop(q, Len(b))]]
    IN  Touch(Touch(g, Parent(a)), Parent(b))

\* What a path resolves to when symbolic links are followed.
Resolve(f, p) == IF Exists(f, p) /\ f[p].kind = "link" THEN f[p].target ELSE p

\* os.makedirs(p, exist_ok=True): the missing directories of p, outermost
\* first; it fails on a component that exists and is no directory.
RECURSIVE MakeDirs(_, _, _)
MakeDirs(f, p, n) ==
    IF n > Len(p) THEN f
    ELSE LET q == SubSeq(p, 1, n)
         IN  IF Exists(f, q) \/ q = <<>> THEN MakeDirs(f, p, n + 1)
             ELSE MakeDirs(AddNode(f, q, NewDir), p, n + 1)

MakeDirsFails(f, p) ==
    \E n \in 1..Len(p) :
        LET q == SubSeq(p, 1, n)
        IN  Exists(f, q) /\ ~IsDirKind(f, Resolve(f, q))

\* shutil.copystat(src, dst): permission bits and timestamps, links followed.
CopyStat(f, src, dst) ==
    [f EXCEPT ![dst].mode = f[Resolve(f, src)].mode,
              ![dst].mtime = f[Resolve(f, src)].mtime]

\* copy_ownership (lines 189-192): owner and group, links followed.
CopyOwnership(f, src, dst) == [f EXCEPT ![dst].own = f[Resolve(f, src)].own]

---------------------------------------------------------------------------
(* copytree (lines 194-228). *)

RECURSIVE ConcatAll(_)
ConcatAll(ss) == IF ss = <<>> THEN <<>> ELSE Head(ss) \o ConcatAll(Tail(ss))

Listing(S, rev) == IF rev THEN Reverse(SortStr(S)) ELSE SortStr(S)

\* The entries in the order the two loops of copytree handle them: for each
\* directory os.walk yields, top down, its dirs and then its files.
RECURSIVE CopyEvents(_, _, _)
CopyEvents(f, d, rev) ==
    LET dirs == Listing(WalkDirs(f, d), rev)
        files == Listing(WalkFiles(f, d), rev)
        below == SelectSeq(dirs, LAMBDA n : f[Append(d, n)].kind = "dir")
    IN  [i \in 1..Len(dirs) |-> [op |-> "dir", path |-> Append(d, dirs[i])]]
        \o [i \in 1..Len(files) |-> [op |-> "file", path |-> Append(d, files[i])]]
        \o ConcatAll([i \in 1..Len(below) |-> CopyEvents(f, Append(d, below[i]), rev)])

\* Line 216: the test that selects the clone branch.
CloneRequested(method) == method = "reflinks"

\* Lines 210-212 and 225-227 as written for the file loop: ownership and stat
\* are copied from srcdir to destdir, the variables of the directory loop.
\* st.bound says whether the directory loop has assigned them yet.
StatAfterFile(st, srcfile, destfile, euid0) ==
    IF ~st.bound THEN [st EXCEPT !.err = "UnboundLocalError"]
    ELSE LET f1 == IF euid0 THEN CopyOwnership(st.f, st.srcdir, st.destdir) ELSE st.f
         IN  [st EXCEPT !.f = CopyStat(f1, st.srcdir, st.destdir)]

\* Lines 207-212: one entry of dirs.
CopyDirEntry(st, src, dst, p, euid0) ==
    LET dp == dst \o Drop(p, Len(src))
        f1 == AddNode(st.f, dp, NewDir)
        f2 == IF euid0 THEN CopyOwnership(f1, p, dp) ELSE f1
    IN  [st EXCEPT !.f = CopyStat(f2, p, dp), !.srcdir = p, !.destdir = dp,
                   !.bound = TRUE, !.log = Append(@, [op |-> "makedirs", path |-> dp])]

\* Lines 214-227: one entry of files.  shutil.copyfile follows a symbolic link
\* and fails on one that leads nowhere; `bad` is the file whose copy the
\* operating system refuses, `noclone` the files reflink reports impossible.
CopyFileEntry(st, src, dst, p, method, euid0, bad, noclone) ==
    LET dp == dst \o Drop(p, Len(src))
        from == Resolve(st.f, p)
        cloned == CloneRequested(method) /\ p \notin noclone
        calls == (IF CloneRequested(method) THEN <<[op |-> "reflink", path |-> dp]>> ELSE <<>>)
                 \o (IF cloned THEN <<>> ELSE <<[op |-> "copyfile", path |-> dp]>>)
        st1 == [st EXCEPT !.log = @ \o calls]
    IN  IF ~cloned /\ ~Exists(st.f, from) THEN [st1 EXCEPT !.err = "FileNotFoundError"]
        ELSE IF ~cloned /\ p \in bad THEN [st1 EXCEPT !.err = "OSError"]
        ELSE StatAfterFile(
                [st1 EXCEPT !.f = AddNode(st.f, dp,
                                    [NewFile EXCEPT !.data = st.f[from].data])],
                p, dp, euid0)

RECURSIVE CopyFold(_, _, _, _, _, _, _, _)
CopyFold(st, events, src, dst, method, euid0, bad, noclone) ==
    IF events = <<>> \/ st.err # "" THEN st
    ELSE LET e == Head(events)
             st1 == IF e.op = "dir" THEN CopyDirEntry(st, src, dst, e.path, euid0)
                    ELSE CopyFileEntry(st, src, dst, e.path, method, euid0, bad, noclone)
         IN  CopyFold(st1, Tail(events), src, dst, method, euid0, bad, noclone)

\* copytree(src, dest, method): the filesystem afterwards, the exception that
\* ended it, and the calls it issued.
CopyTree(f, src, dst, method, euid0, rev, bad, noclone) ==
    CopyFold([f |-> f, srcdir |-> <<>>, destdir |-> <<>>, bound |-> FALSE,
              err |-> "", log |-> <<>>],
             CopyEvents(f, src, rev), src, dst, method, euid0, bad, noclone)

\* The entries below d that copytree's file loop handles.
FilesBelow(f, d) ==
    {q \in DOMAIN f : IsAncestor(d, q) /\ f[q].kind # "dir"}

---------------------------------------------------------------------------
(* restore_subvol and convert_dir_to_subv, one step per call they make. *)

\* '.btrfs-subv-backup.tmp' and '.btrfs-subv-backup.old' (lines 251, 259),
\* written here as ".t" and ".o".
CopyName == <<46, 116>>
OldName == <<46, 111>>

\* The base64 text gen_rand_subvolpath draws (line 185).
Seeds == {<<115>>}

\* Line 187: '.' + dest[1] + '.' + seed
TempName(subvol, seed) == <<46>> \o subvol \o <<46>> \o seed

\* The part of the state a step of the restore side reads and writes.
Cur == [fs |-> fs, pc |-> pc, err |-> err, idx |-> idx, cv |-> cv, log |-> log,
        faults |-> faults]

Apply(o) ==
    /\ fs' = o.fs
    /\ pc' = o.pc
    /\ err' = o.err
    /\ idx' = o.idx
    /\ cv' = o.cv
    /\ log' = o.log
    /\ faults' = o.faults

RaisedAndSkipped(s, e) == [s EXCEPT !.err = e, !.pc = "loop", !.idx = @ + 1]

\* An exception leaves restore_subvol and the loop of main (line 347): the run
\* is over.
Raised(s, e) == [s EXCEPT !.err = e, !.pc = "done"]

\* restore_subvol returns: the loop goes on with the next entry.
Returned(s) == [s EXCEPT !.pc = "loop", !.idx = @ + 1]

\* An exception inside the try block of line 258: the finally clause runs.
ToCleanup(s, e) == [s EXCEPT !.err = e, !.pc = "cv_cleanup"]

\* The end of the finally clause: the pending exception is raised again, or
\* convert_dir_to_subv returns True (line 274).
Finished(s) == IF s.err = "" THEN Returned(s) ELSE [s EXCEPT !.pc = "done"]

Logged(s, op, path) == [s EXCEPT !.log = Append(@, [op |-> op, path |-> path])]

Fault(s, name) == [s EXCEPT !.faults = @ \cup {name}]

RestoreEnterMakesDest(s, mp, item) ==
    LET destpath == Split(AbsPath(Join(mp, item)))
        s1 == [Logged(s, "restore_subvol", destpath) EXCEPT
                 !.cv = [NoConversion EXCEPT !.dest = destpath]]
    IN  IF MakeDirsFails(s.fs, destpath)
        THEN {Raised(s1, "OSError: makedirs")}
        ELSE {[s1 EXCEPT !.fs = MakeDirs(s.fs, destpath, 1), !.pc = "rs_check"]}

\* Lines 346-347 and 282-283: the next entry, its absolute path, and the
\* parent directories.
RestoreEnter(s, mp, item) ==
    LET destpath == Split(AbsPath(Join(mp, item)))
        s1 == [Logged(s, "restore_subvol", destpath) EXCEPT
                 !.cv = [NoConversion EXCEPT !.dest = destpath]]
    IN  IF MakeDirsFails(s.fs, Parent(destpath))
        THEN {Raised(s1, "OSError: makedirs")}
        ELSE {[s1 EXCEPT !.fs = MakeDirs(s.fs, Parent(destpath), 1), !.pc = "rs_check"]}

\* Lines 284-298.
RestoreDispatchNoMountCheck(s, mt) ==
    LET d == s.cv.dest
    IN  IF IsDirKind(s.fs, Resolve(s.fs, d)) THEN {[s EXCEPT !.pc = "cv_check"]}
        ELSE IF ~Exists(s.fs, Resolve(s.fs, d))
        THEN LET s1 == Logged(s, "create", d)
             IN  {Returned([s1 EXCEPT !.fs = AddNode(s.fs, d, NewSubvol)]),
                  Raised(Fault(s1, "create"), "OSError: create")}
        ELSE {Raised(s, "OSError: not a directory")}

RestoreDispatch(s, mt) ==
    LET d == s.cv.dest
    IN  IF IsMount(s.fs, mt, AbsStr(d)) THEN {Raised(s, "OSError: mount point")}
        ELSE IF IsDirKind(s.fs, Resolve(s.fs, d)) THEN {[s EXCEPT !.pc = "cv_check"]}
        ELSE IF ~Exists(s.fs, Resolve(s.fs, d))
        THEN LET s1 == Logged(s, "create", d)
             IN  {Returned([s1 EXCEPT !.fs = AddNode(s.fs, d, NewSubvol)]),
                  Raised(Fault(s1, "create"), "OSError: create")}
        ELSE {Raised(s, "OSError: not a directory")}

\* open(copypath, 'w+') and close (lines 252-253): the file is created, or
\* emptied when it is there already.
OpenTruncate(f, p) ==
    IF Exists(f, p) THEN [f EXCEPT ![p].data = 0, ![p].mtime = 0]
    ELSE AddNode(f, p, NewFile)

\* Lines 245-253.
ConvertBeginNoInodeCheck(s, seed) ==
    LET d == s.cv.dest
        temp == Append(Parent(d), TempName(Base(d), seed))
        copy == Append(Parent(d), CopyName)
    IN  IF ~IsDirKind(s.fs, Resolve(s.fs, d)) THEN Raised(s, "OSError: not a directory")
        ELSE IF Exists(s.fs, copy) /\ s.fs[copy].kind # "file"
        THEN Raised(s, "OSError: open")
        ELSE [Logged(s, "open", copy) EXCEPT
                !.fs = OpenTruncate(s.fs, copy),
                !.cv = [dest |-> d, temp |-> temp, copy |-> copy, old |-> <<>>],
                !.pc = "cv_create"]

ConvertBegin(s, seed) ==
    LET d == s.cv.dest
        temp == Append(Parent(d), TempName(Base(d), seed))
        copy == Append(Parent(d), CopyName)
    IN  IF ~IsDirKind(s.fs, Resolve(s.fs, d)) THEN Raised(s, "OSError: not a directory")
        ELSE IF s.fs[d].ino = SubvolIno THEN Returned(s)
        ELSE IF Exists(s.fs, copy) /\ s.fs[copy].kind # "file"
        THEN Raised(s, "OSError: open")
        ELSE [Logged(s, "open", copy) EXCEPT
                !.fs = OpenTruncate(s.fs, copy),
                !.cv = [dest |-> d, temp |-> temp, copy |-> copy, old |-> <<>>],
                !.pc = "cv_create"]

\* Lines 254-257: the exception is raised outside the try block of line 258.
ConvertCreateTemp(s) ==
    LET s1 == Logged(s, "create", s.cv.temp)
    IN  {Raised(Fault(s1, "create"), "OSError: create temporary")}
        \cup (IF Exists(s.fs, s.cv.temp) THEN {}
              ELSE {[s1 EXCEPT !.fs = AddNode(s.fs, s.cv.temp, NewSubvol),
                               !.pc = "cv_stat"]})

\* Lines 259-260.
ConvertSaveStat(s) ==
    LET s1 == [Logged(s, "copystat", s.cv.copy) EXCEPT
                 !.cv.old = Append(Parent(s.cv.dest), OldName)]
    IN  {[s1 EXCEPT !.fs = CopyStat(s.fs, s.cv.dest, s.cv.copy), !.pc = "cv_copy"],
         ToCleanup(Fault(s1, "copystat"), "OSError: copystat")}

\* Line 261.
ConvertCopyTree(s, method, euid0, rev, bad, noclone) ==
    LET r == CopyTree(s.fs, s.cv.dest, s.cv.temp, method, euid0, rev, bad, noclone)
        s1 == [Logged(s, "copytree", s.cv.temp) EXCEPT !.fs = r.f, !.log = @ \o r.log]
    IN  IF r.err = "" THEN [s1 EXCEPT !.pc = "cv_mv1"]
        ELSE IF r.err = "OSError" THEN ToCleanup(Fault(s1, "copyfile"), "OSError: copyfile")
        ELSE ToCleanup(s1, r.err)

\* os.rename(a, b): b may be an empty directory, which is replaced.
RenameFails(f, a, b) ==
    \/ ~Exists(f, a)
    \/ Exists(f, b) /\ (f[b].kind # "dir" \/ Children(f, b) # {})

RenameOver(f, a, b) == Rename(IF Exists(f, b) THEN RemoveTree(f, b) ELSE f, a, b)

ConvertRenameAwaySkipped(s) ==
    {[Logged(s, "rename", s.cv.dest) EXCEPT !.pc = "cv_mv2"]}

\* Line 262.
ConvertRenameAway(s) ==
    LET s1 == Logged(s, "rename", s.cv.dest)
    IN  {ToCleanup(Fault(s1, "rename"), "OSError: rename")}
        \cup (IF RenameFails(s.fs, s.cv.dest, s.cv.old) THEN {}
              ELSE {[s1 EXCEPT !.fs = RenameOver(s.fs, s.cv.dest, s.cv.old),
                               !.pc = "cv_mv2"]})

\* Line 263.
ConvertRenameIn(s) ==
    LET s1 == Logged(s, "rename", s.cv.temp)
    IN  {ToCleanup(Fault(s1, "rename"), "OSError: rename")}
        \cup (IF RenameFails(s.fs, s.cv.temp, s.cv.dest) THEN {}
              ELSE {[s1 EXCEPT !.fs = RenameOver(s.fs, s.cv.temp, s.cv.dest),
                               !.pc = "cv_stat2"]})

\* Lines 264-266.
ConvertRestoreStat(s, euid0) ==
    LET s1 == Logged(s, "copystat", s.cv.dest)
        f1 == CopyStat(s.fs, s.cv.copy, s.cv.dest)
        s2 == Logged([s1 EXCEPT !.fs = f1], "chown", s.cv.dest)
    IN  {ToCleanup(Fault(s1, "copystat"), "OSError: copystat")}
        \cup (IF euid0
              THEN {[s2 EXCEPT !.fs = CopyOwnership(f1, s.cv.old, s.cv.dest),
                               !.pc = "cv_rmtree"],
                    ToCleanup(Fault(s2, "chown"), "OSError: chown")}
              ELSE {[s1 EXCEPT !.fs = f1, !.pc = "cv_rmtree"]})

\* Line 267.
ConvertRmtree(s) ==
    LET s1 == Logged(s, "rmtree", s.cv.old)
    IN  {[s1 EXCEPT !.fs = RemoveTree(s.fs, s.cv.old), !.pc = "cv_cleanup"],
         ToCleanup(Fault(s1, "rmtree"), "OSError: rmtree")}

CleanupDeleteSkipped(s) == {[Logged(s, "delete", s.cv.temp) EXCEPT !.pc = "cv_unlink"]}

\* Line 270, with the except clause of lines 272-273: btrfs subvolume delete
\* fails on a path that is no subvolume; its CalledProcessError is passed
\* over, and with it line 271.
CleanupDelete(s) ==
    LET s1 == Logged(s, "delete", s.cv.temp)
        there == Exists(s.fs, s.cv.temp) /\ s.fs[s.cv.temp].ino = SubvolIno
    IN  IF there
        THEN {[s1 EXCEPT !.fs = RemoveTree(s.fs, s.cv.temp), !.pc = "cv_unlink"],
              Finished(Fault(s1, "delete"))}
        ELSE {Finished(s1)}

\* Line 271: an OSError of os.unlink is not caught by line 272.
CleanupUnlink(s) ==
    LET s1 == Logged(s, "unlink", s.cv.copy)
    IN  IF ~Exists(s.fs, s.cv.copy) THEN {Raised(s1, "OSError: unlink")}
        ELSE {Finished([s1 EXCEPT !.fs = RemoveTree(s.fs, s.cv.copy)]),
              Raised(Fault(s1, "unlink"), "OSError: unlink")}

restoreFrame == <<mtab, mpath, walk, subvolumes, env, fs0, fs1, run>>

\* main in restore mode, lines 339-342: get_fs_info, and then the test of
\* `verbose`, a name neither main nor the module defines.
MainRestore ==
    /\ pc = "main"
    /\ pc' = "done"
    /\ err' = "NameError"
    /\ UNCHANGED <<fs, mtab, mpath, walk, subvolumes, env, idx, cv, log, faults, fs0, fs1, run>>

\* Lines 343-345: the list of the snapshot file, sorted.
RestoreStart ==
    /\ pc = "restore"
    /\ subvolumes' = Sorted(subvolumes)
    /\ idx' = 1
    /\ pc' = "loop"
    /\ UNCHANGED <<fs, mtab, mpath, walk, err, env, cv, log, faults, fs0, fs1, run>>

\* Line 346: the list is used up.
LoopEnd ==
    /\ pc = "loop"
    /\ idx > Len(subvolumes)
    /\ pc' = "done"
    /\ UNCHANGED <<fs, mtab, mpath, walk, subvolumes, err, env, idx, cv, log, faults, fs0, fs1, run>>

\* The program run once more on the same mount point and snapshot file, right
\* after a run whose loop went through the whole list (lines 343-347 again).
RestoreAgain ==
    /\ pc = "done"
    /\ err = ""
    /\ idx > Len(subvolumes)
    /\ run = 1
    /\ run' = 2
    /\ pc' = "restore"
    /\ idx' = 0
    /\ cv' = NoConversion
    /\ log' = <<>>
    /\ faults' = {}
    /\ fs0' = fs
    /\ fs1' = fs
    /\ UNCHANGED <<fs, mtab, mpath, walk, subvolumes, err, env>>

RestoreSubvolEnter ==
    /\ pc = "loop"
    /\ idx <= Len(subvolumes)
    /\ \E o \in RestoreEnter(Cur, mpath, subvolumes[idx]) : Apply(o)
    /\ fs1' = fs
    /\ UNCHANGED <<mtab, mpath, walk, subvolumes, env, fs0, run>>

RestoreSubvolDispatch ==
    /\ pc = "rs_check"
    /\ \E o \in RestoreDispatch(Cur, mtab) : Apply(o)
    /\ UNCHANGED restoreFrame

ConvertEnter ==
    /\ pc = "cv_check"
    /\ \E seed \in Seeds : Apply(ConvertBegin(Cur, seed))
    /\ UNCHANGED restoreFrame

ConvertCreate ==
    /\ pc = "cv_create"
    /\ \E o \in ConvertCreateTemp(Cur) : Apply(o)
    /\ UNCHANGED restoreFrame

ConvertStat ==
    /\ pc = "cv_stat"
    /\ \E o \in ConvertSaveStat(Cur) : Apply(o)
    /\ UNCHANGED restoreFrame

\* The order of a directory's entries is the filesystem's (both orders of the
\* names are taken); at most one file is made to fail.
ConvertCopy ==
    /\ pc = "cv_copy"
    /\ \E rev \in BOOLEAN :
       \E bad \in {{}} \cup {{p} : p \in FilesBelow(fs, cv.dest)} :
       \E noclone \in (IF CloneRequested(env.method)
                       THEN SUBSET FilesBelow(fs, cv.dest) ELSE {{}}) :
          Apply(ConvertCopyTree(Cur, env.method, env.euid0, rev, bad, noclone))
    /\ UNCHANGED restoreFrame

ConvertSwapOut ==
    /\ pc = "cv_mv1"
    /\ \E o \in ConvertRenameAway(Cur) : Apply(o)
    /\ UNCHANGED restoreFrame

ConvertSwapIn ==
    /\ pc = "cv_mv2"
    /\ \E o \in ConvertRenameIn(Cur) : Apply(o)
    /\ UNCHANGED restoreFrame

ConvertStatBack ==
    /\ pc = "cv_stat2"
    /\ \E o \in ConvertRestoreStat(Cur, env.euid0) : Apply(o)
    /\ UNCHANGED restoreFrame

ConvertRemoveOld ==
    /\ pc = "cv_rmtree"
    /\ \E o \in ConvertRmtree(Cur) : Apply(o)
    /\ UNCHANGED restoreFrame

ConvertCleanupDelete ==
    /\ pc = "cv_cleanup"
    /\ \E o \in CleanupDelete(Cur) : Apply(o)
    /\ UNCHANGED restoreFrame

ConvertCleanupUnlink ==
    /\ pc = "cv_unlink"
    /\ \E o \in CleanupUnlink(Cur) : Apply(o)
    /\ UNCHANGED restoreFrame

---------------------------------------------------------------------------
(* The mount points and snapshot lists the restore side is run on. *)

\* Regular files directly in directory "a".
MaxFiles == 1

RestoreMount == <<Slash>> \o StrM

RECURSIVE SumOf(_)
SumOf(s) == IF s = <<>> THEN 0 ELSE Head(s) + SumOf(Tail(s))

\* A value that differs from one entry to the next and from 0, the value of
\* a new entry: it stands for the entry's permission bits, timestamps, owner
\* and content before the run.
StampOf(rel) == 1 + SumOf(RelStr(rel))

FileNames == {<<101 + i>> : i \in 1..MaxFiles}

OldFile(rel) == Node("file", PlainIno, FALSE, StampOf(rel), StampOf(rel), <<>>)

DirChoices == {"plain", "subvol", "mount256"}

\* The entry at relative path rel, of the given choice.
ChoiceNode(choice, rel) ==
    IF choice = "file" THEN OldFile(rel) ELSE FlavourNode(choice, StampOf(rel))

Only(p, c) == [x \in {p} |-> c]

\* A symbolic link "a/l": to the mount point's directory, or to the path of
\* the file "a/f", which is there or not.
LinkRel == <<StrA, <<108>> >>
LinkTarget(root, choice) ==
    IF choice = "linkd" THEN root ELSE root \o <<StrA, <<102>> >>

LinkNode(root, choice, rel) ==
    Node("link", PlainIno, FALSE, StampOf(rel), 0, LinkTarget(root, choice))

\* The trees, as what each relative path is: "a" absent, a file, or a
\* directory (ordinary, subvolume root or mount point) holding files, and
\* possibly the symbolic link "a/l", and "a/b" absent, a file or a directory
\* with or without a file of its own; "a-" absent or a directory.
RestoreShapes ==
    LET a == <<StrA>>
        ab == <<StrA, StrB>>
        abf == <<StrA, StrB, <<102>> >>
        ad == <<StrADash>>
        underB == {<<>>, Only(abf, "file")}
        atB == {<<>>, Only(ab, "file")} \cup
               {Only(ab, cb) @@ g : cb \in {"plain", "subvol"}, g \in underB}
        filesA == {[x \in {<<StrA, n>> : n \in F} |-> "file"] : F \in SUBSET FileNames}
        linksA == {<<>>, Only(LinkRel, "linkd"), Only(LinkRel, "linkf")}
        atA == {<<>>, Only(a, "file")} \cup
               {Only(a, c) @@ fa @@ lk @@ sub :
                    c \in DirChoices, fa \in filesA, lk \in linksA, sub \in atB}
        atAD == {<<>>} \cup {Only(ad, c) : c \in {"plain", "subvol"}}
    IN  {t @@ u : t \in atA, u \in atAD}

\* The tree of shape t (relative paths) placed under the mount point mp.
Mounted(mp, t) ==
    LET root == Split(mp)
    IN  [p \in {root} \cup {root \o d : d \in DOMAIN t} |->
            IF p = root THEN FlavourNode("subvol", StampOf(<<>>))
            ELSE IF t[Drop(p, Len(root))] \in {"linkd", "linkf"}
            THEN LinkNode(root, t[Drop(p, Len(root))], Drop(p, Len(root)))
            ELSE ChoiceNode(t[Drop(p, Len(root))], Drop(p, Len(root)))]

\* The lines of /proc/mounts for it.
MountedTable(mp, t) ==
    LET root == Split(mp)
        mounted == {AbsStr(root \o d) : d \in {e \in DOMAIN t : t[e] = "mount256"}}
        lines == SortStr(mounted)
    IN  <<MountEntry(mp, "btrfs")>> \o
        [i \in 1..Len(lines) |-> MountEntry(lines[i], "btrfs")]

\* The paths a snapshot file may list.
ListStrings == {RelStr(<<StrA>>), RelStr(<<StrA, StrB>>), RelStr(<<StrADash>>)}

\* The lists without repetition over S, in every order.
RECURSIVE Lists(_)
Lists(S) ==
    {<<>>} \cup UNION {{<<x>> \o l : l \in Lists(S \ {x})} : x \in S}

Init ==
    /\ mpath = RestoreMount
    /\ \E t \in RestoreShapes :
        /\ fs = Mounted(mpath, t)
        /\ mtab = MountedTable(mpath, t)
    /\ pc \in {"main", "restore"}
    /\ walk = <<>>
    /\ subvolumes \in Lists(ListStrings)
    /\ err = ""
    /\ env \in [method : {"reflink", "copy"}, euid0 : BOOLEAN]
    /\ idx = 0
    /\ cv = NoConversion
    /\ log = <<>>
    /\ faults = {}
    /\ fs0 = fs
    /\ fs1 = fs
    /\ run = 1

Next ==
    \/ MainRestore
    \/ RestoreStart
    \/ LoopEnd
    \/ RestoreAgain
    \/ RestoreSubvolEnter
    \/ RestoreSubvolDispatch
    \/ ConvertEnter
    \/ ConvertCreate
    \/ ConvertStat
    \/ ConvertCopy
    \/ ConvertSwapOut
    \/ ConvertSwapIn
    \/ ConvertStatBack
    \/ ConvertRemoveOld
    \/ ConvertCleanupDelete
    \/ ConvertCleanupUnlink

Spec == Init /\ [][Next]_vars

---------------------------------------------------------------------------
(* main in save mode (lines 332-338). *)

\* get_fs_info (lines 102-150): the first line of /proc/mounts of type btrfs
\* whose mount path is abspath(path), and its subvolid= option; the error it
\* raises, "" for none.  A failing blkid is swallowed (lines 145-149).
GetFsInfo(mt, path) ==
    LET hits == SelectSeq(mt, LAMBDA e : e.fstype = "btrfs" /\ e.path = AbsPath(path))
    IN  IF hits = <<>> THEN "ValueError: not a mountpoint"
        ELSE IF hits[1].subvolid = 0 THEN "ValueError: subvolume ID"
        ELSE ""

MainSaveInfoOpensFirst(f, mt, mp) ==
    [err |-> GetFsInfo(mt, mp), fs |-> OpenTruncate(f, SnapshotPath(mp))]

\* Line 333: get_fs_info, which reads and writes nothing but /proc/mounts.
MainSaveInfo(f, mt, mp) == [err |-> GetFsInfo(mt, mp), fs |-> f]

\* Lines 337-338: the file opened with 'w+' and the dictionary dumped into it.
\* The content is stood for by the length of the list.
WriteSnapshot(f, mp, subvols) ==
    [OpenTruncate(f, SnapshotPath(mp)) EXCEPT ![SnapshotPath(mp)].data = 1 + Len(subvols)]

MainSave ==
    /\ pc = "main"
    /\ LET o == MainSaveInfo(fs, mtab, mpath)
       IN  /\ fs' = o.fs
           /\ err' = o.err
           /\ pc' = IF o.err = "" THEN "save" ELSE "done"
    /\ UNCHANGED <<mtab, mpath, walk, subvolumes, restoreVars>>

\* Line 172: os.stat of an entry that is not a mount point raises (the entry
\* was removed, or its directory cannot be searched); get_subvol_list has no
\* handler and neither has main.
ScanFail ==
    /\ pc = "walk"
    /\ walk # <<>>
    /\ \E n \in WalkDirs(fs, Split(Head(walk))) : ~IsMount(fs, mtab, Join(Head(walk), n))
    /\ err' = "OSError: stat"
    /\ faults' = faults \cup {"stat"}
    /\ pc' = "done"
    /\ UNCHANGED <<fs, mtab, mpath, walk, subvolumes, env, idx, cv, log, fs0, fs1, run>>

MainSaveWrite ==
    /\ pc = "scanned"
    /\ fs' = WriteSnapshot(fs, mpath, subvolumes)
    /\ pc' = "written"
    /\ UNCHANGED <<mtab, mpath, walk, subvolumes, err, restoreVars>>

NextSave == MainSave \/ ScanStart \/ ScanStep \/ ScanFail \/ ScanFinish \/ MainSaveWrite

SpecSave == InitSave /\ [][NextSave]_vars

(***************************************************************************)
(* The claims.                                                             *)
(***************************************************************************)

MountRoot == Split(mpath)

\* The directories strictly below the mount point that /proc/mounts lists.
NestedMounts ==
    {p \in DOMAIN fs \ {MountRoot} :
        \E i \in 1..Len(mtab) : Split(mtab[i].path) = p}

\* The relative path strings of the directories strictly below the mount
\* point whose inode number is 256.
SubvolRootStrings ==
    {RelStr(Drop(p, Len(MountRoot))) :
        p \in {q \in DOMAIN fs \ {MountRoot} :
                 fs[q].kind = "dir" /\ fs[q].ino = SubvolIno}}

StrictlySorted(s) == \A i, j \in 1..Len(s) : i < j => StrLess(s[i], s[j])

\* C7: on a tree without nested mount points get_subvol_list returns exactly
\* the relative paths (no leading separator) of the directories strictly below
\* the mount point whose inode number is 256, nested ones included, the mount
\* point itself never, without duplicates and sorted ascending as strings.
C7_ScanExactSorted ==
    (pc = "scanned" /\ NestedMounts = {}) =>
        /\ Range(subvolumes) = SubvolRootStrings
        /\ <<>> \notin Range(subvolumes)
        /\ \A i \in 1..Len(subvolumes) : Head(subvolumes[i]) # Slash
        /\ StrictlySorted(subvolumes)

\* A scan that found a subvolume nested in a subvolume, and a sibling whose
\* name sorts between the two as a string.
C7_Witness ==
    /\ pc = "scanned"
    /\ NestedMounts = {}
    /\ Len(subvolumes) > 2
    /\ \E i, j \in 1..Len(subvolumes) :
        /\ i + 1 < j
        /\ IsAncestor(Split(subvolumes[i]), Split(subvolumes[j]))

\* C8: a directory that /proc/mounts lists is never recorded, whatever its
\* inode number, and never descended into: no path at or below it is in the
\* list or waits to be walked, at any point of the scan.
C8_MountsExcluded ==
    \A m \in NestedMounts :
        /\ \A i \in 1..Len(subvolumes) :
            ~IsPrefix(m, MountRoot \o Split(subvolumes[i]))
        /\ \A i \in 1..Len(walk) : ~IsPrefix(m, Split(walk[i]))

\* A finished scan of a tree in which a mounted directory with inode 256
\* holds a subvolume root, beside a subvolume that was recorded.
C8_Witness ==
    /\ pc = "scanned"
    /\ subvolumes # <<>>
    /\ \E m \in NestedMounts :
        /\ fs[m].ino = SubvolIno
        /\ \E p \in DOMAIN fs : IsAncestor(m, p) /\ fs[p].ino = SubvolIno

---------------------------------------------------------------------------
(* The restore side. *)

IsSubvolRoot(f, p) == Exists(f, p) /\ f[p].kind = "dir" /\ f[p].ino = SubvolIno

InMountTable(p) == \E i \in 1..Len(mtab) : Split(mtab[i].path) = p

\* A directory that is neither a subvolume root nor a mount point.
IsOrdinaryDir(f, p) ==
    Exists(f, p) /\ f[p].kind = "dir" /\ f[p].ino # SubvolIno /\ ~InMountTable(p)

\* The absolute path of the i-th entry of the list.
ListPath(i) == MountRoot \o Split(subvolumes[i])

\* The paths of the restore_subvol calls made so far, in order.
Calls ==
    LET c == SelectSeq(log, LAMBDA e : e.op = "restore_subvol")
    IN  [i \in 1..Len(c) |-> c[i].path]

\* The last restore_subvol call has returned or raised.
CallEnded == idx >= 1 /\ pc \in {"loop", "done"} /\ cv.dest # <<>>

\* That call went into the conversion protocol (line 250 onwards), which has
\* ended.
ConversionEnded == CallEnded /\ cv.temp # <<>>

\* Nothing was issued by the last restore_subvol call.
NothingIssued == log[Len(log)].op = "restore_subvol"

\* The entries of f strictly below p.
Below(f, p) == {q \in DOMAIN f : IsAncestor(p, q)}

\* No component above p, below the mount point, is a file.
ParentsUsable(f, p) ==
    \A n \in (Len(MountRoot) + 1)..(Len(p) - 1) :
        ~Exists(f, SubSeq(p, 1, n)) \/ IsDirKind(f, SubSeq(p, 1, n))

\* C1: the restore loop, on a list whose paths are each absent or an ordinary
\* directory and with no collaborator or OS call made to fail, calls
\* restore_subvol once per listed path and ends without error with every
\* listed path a subvolume root.
C1_RestoreMakesAllSubvolumes ==
    (/\ pc = "done"
     /\ idx >= 1
     /\ faults = {}
     /\ \A i \in 1..Len(subvolumes) :
            /\ ~Exists(fs0, ListPath(i)) \/ IsOrdinaryDir(fs0, ListPath(i))
            /\ ParentsUsable(fs0, ListPath(i)))
    => /\ err = ""
       /\ Calls = [i \in 1..Len(subvolumes) |-> ListPath(i)]
       /\ \A i \in 1..Len(subvolumes) : IsSubvolRoot(fs, ListPath(i))

\* The directory the last call was given held regular files and nothing else.
FilesOnly(f, p) ==
    /\ IsOrdinaryDir(f, p)
    /\ Below(f, p) # {}
    /\ \A q \in Below(f, p) : f[q].kind = "file"

\* C2: converting an ordinary directory that holds only regular files, with
\* no call made to fail, succeeds: the destination is a subvolume root, every
\* file is there with its content, and the backup directory is gone.
C2_FilesOnlyConversionSucceeds ==
    (ConversionEnded /\ faults = {} /\ FilesOnly(fs1, cv.dest))
    => /\ err = ""
       /\ IsSubvolRoot(fs, cv.dest)
       /\ \A q \in Below(fs1, cv.dest) :
            Exists(fs, q) /\ fs[q].kind = "file" /\ fs[q].data = fs1[q].data
       /\ ~Exists(fs, cv.old)

SameStat(n, m) == n.mode = m.mode /\ n.mtime = m.mtime

\* C3: after a successful conversion the new subvolume root has the stat
\* metadata the directory had, and every regular file and subdirectory has
\* the mode and timestamps (and, privileged, the owner) of its source entry.
C3_MetadataPreserved ==
    (ConversionEnded /\ err = "" /\ IsSubvolRoot(fs, cv.dest))
    => /\ SameStat(fs[cv.dest], fs1[cv.dest])
       /\ \A q \in Below(fs1, cv.dest) :
            /\ Exists(fs, q)
            /\ SameStat(fs[q], fs1[q])
            /\ env.euid0 => fs[q].own = fs1[q].own

\* C4 as stated: restoring a path that is already a subvolume root returns
\* success and leaves the filesystem unchanged.
C4_SubvolRootIsNoOp_Stated ==
    (CallEnded /\ IsSubvolRoot(fs1, cv.dest))
    => err = "" /\ fs = fs1 /\ NothingIssued /\ cv.temp = <<>>

\* C4, amended: restoring a path that is already a subvolume root and that
\* /proc/mounts does not list returns success and leaves the filesystem
\* unchanged: no temporary subvolume, placeholder file or backup path is
\* created and nothing is renamed.
C4_SubvolRootIsNoOp ==
    (CallEnded /\ IsSubvolRoot(fs1, cv.dest) /\ ~InMountTable(cv.dest))
    => err = "" /\ fs = fs1 /\ NothingIssued /\ cv.temp = <<>>

\* The second entry of a list was a subvolume root already and the call for
\* it has returned.
C4_Witness ==
    /\ pc = "loop"
    /\ idx = 3
    /\ err = ""
    /\ IsSubvolRoot(fs1, cv.dest)
    /\ ~InMountTable(cv.dest)
    /\ Below(fs1, cv.dest) # {}

\* The proper ancestors of p below the mount point.
Ancestors(p) == {SubSeq(p, 1, n) : n \in (Len(MountRoot) + 1)..(Len(p) - 1)}

\* f and g agree on p but for the modification time of a directory.
SameButMtime(n, m) == [n EXCEPT !.mtime = 0] = [m EXCEPT !.mtime = 0]

C6_MountPointRejected ==
    (CallEnded /\ Exists(fs1, cv.dest) /\ InMountTable(cv.dest))
    => /\ err = "OSError: mount point"
       /\ pc = "done"
       /\ fs = fs1
       /\ NothingIssued

\* The call was refused for a mount point that holds entries.
C6_Witness ==
    /\ CallEnded
    /\ InMountTable(cv.dest)
    /\ err = "OSError: mount point"
    /\ Below(fs, cv.dest) # {}

\* C9: the loop is fail-fast.  When the run has ended with an error, the
\* failing entry is the last one restore_subvol was called for, no later entry
\* was attempted, and every entry before it is a subvolume root.
C9_FailFast ==
    (pc = "done" /\ err # "" /\ idx >= 1)
    => /\ idx <= Len(subvolumes)
       /\ Calls = [i \in 1..idx |-> ListPath(i)]
       /\ \A i \in 1..(idx - 1) : IsSubvolRoot(fs, ListPath(i))

\* The second of three entries failed after the first had been converted.
C9_Witness ==
    /\ pc = "done"
    /\ err # ""
    /\ idx = 2
    /\ Len(subvolumes) = 3
    /\ IsOrdinaryDir(fs0, ListPath(1))
    /\ IsSubvolRoot(fs, ListPath(1))

\* C10: when a conversion ends, in success or after a protocol step failed,
\* and no cleanup call was made to fail, the placeholder file is deleted and
\* no subvolume is left under the temporary name; after a success the backup
\* directory is gone too.
C10_ArtifactsGone ==
    (ConversionEnded /\ faults \cap {"delete", "unlink"} = {})
    => /\ ~Exists(fs, cv.copy)
       /\ ~Exists(fs, cv.temp)
       /\ err = "" => ~Exists(fs, Append(Parent(cv.dest), OldName))

\* C11: in save mode, when get_fs_info fails (no btrfs line of /proc/mounts
\* for the path, or no subvolid) or the scan fails, the run ends before the
\* snapshot file is opened for writing: none is created, and one that was
\* there is as it was.
C11_SaveAbortsBeforeWriting ==
    err # "" =>
        /\ pc = "done"
        /\ Exists(fs, SnapshotPath(mpath)) <=> Exists(fs0, SnapshotPath(mpath))
        /\ Exists(fs, SnapshotPath(mpath)) =>
                fs[SnapshotPath(mpath)] = fs0[SnapshotPath(mpath)]
        /\ fs = fs0

\* The scan failed after it had recorded a subvolume, an earlier snapshot
\* file being there.
C11_Witness ==
    /\ err = "OSError: stat"
    /\ subvolumes # <<>>
    /\ Exists(fs0, SnapshotPath(mpath))

\* get_fs_info failed for want of a subvolid.
C11_WitnessInfo ==
    /\ err = "ValueError: subvolume ID"
    /\ Exists(fs0, SnapshotPath(mpath))

\* The entries of the list as processed so far, as the list has them.
CalledEntries == [k \in 1..Len(Calls) |-> subvolumes[k]]

\* C12: the restore loop takes the entries in ascending string order, and a
\* listed path that is a proper ancestor of another listed path comes before
\* it: when restore_subvol is called for the descendant, the listed ancestor
\* has been restored and is a subvolume root.
C12_AncestorsFirst ==
    idx >= 1 =>
        /\ Len(Calls) <= Len(subvolumes)
        /\ \A k \in 1..Len(Calls) : Calls[k] = ListPath(k)
        /\ \A j, k \in 1..Len(Calls) : j < k => StrLess(CalledEntries[j], CalledEntries[k])
        /\ \A i \in 1..Len(subvolumes) : \A k \in 1..Len(Calls) :
              IsAncestor(ListPath(i), Calls[k]) =>
                  i < k /\ IsSubvolRoot(fs, ListPath(i))

\* "a", "a-" and "a/b" were restored in this order, "a" not having been a
\* subvolume root before.
C12_Witness ==
    /\ pc = "done"
    /\ err = ""
    /\ Len(Calls) > 2
    /\ IsAncestor(Calls[1], Calls[Len(Calls)])
    /\ ~IsSubvolRoot(fs0, Calls[1])

\* What the last restore_subvol call has issued.
LastCallOps ==
    LET starts == {i \in 1..Len(log) : log[i].op = "restore_subvol"}
        from == CHOOSE i \in starts : \A j \in starts : j <= i
    IN  {log[i].op : i \in (from + 1)..Len(log)}

\* C13: when a conversion has ended, after a success or after an error of a
\* protocol step, the cleanup phase has attempted both the delete of the
\* temporary subvolume and the delete of the placeholder file, and no failure
\* of a cleanup action is what the conversion reports.
C13_CleanupSwallowed ==
    ConversionEnded =>
        /\ "delete" \in LastCallOps
        /\ "unlink" \in LastCallOps
        /\ err # "OSError: unlink"

\* C14: when the create of the temporary subvolume fails, the conversion ends
\* with the subvolume-create error and the filesystem is as it was when the
\* conversion started: no placeholder file, temporary subvolume or backup
\* path is in the parent directory.
C14_CreateFailureLeavesNothing ==
    (ConversionEnded /\ "create" \in faults) =>
        /\ err = "OSError: create temporary"
        /\ fs = fs1
        /\ ~Exists(fs, cv.copy)
        /\ ~Exists(fs, cv.temp)
        /\ ~Exists(fs, Append(Parent(cv.dest), OldName))

\* What the last restore_subvol call has issued, in order.
LastCallLog ==
    LET starts == {i \in 1..Len(log) : log[i].op = "restore_subvol"}
        from == CHOOSE i \in starts : \A j \in starts : j <= i
    IN  SubSeq(log, from + 1, Len(log))

\* The path under `to` that corresponds to q under `from`.
Moved(q, from, to) == to \o Drop(q, Len(from))

C16_SymlinksPreserved ==
    pc = "cv_mv1" =>
        \A q \in Below(fs, cv.dest) :
            fs[q].kind = "link" =>
                /\ Exists(fs, Moved(q, cv.dest, cv.temp))
                /\ fs[Moved(q, cv.dest, cv.temp)].kind = "link"
                /\ fs[Moved(q, cv.dest, cv.temp)].target = fs[q].target

\* C17: with the reflink method every regular file is first attempted as a
\* clone, and copied only when the clone was reported impossible, which never
\* makes the conversion fail; with the copy method no clone is attempted.
C17_CloneFirst ==
    /\ env.method = "copy" => \A k \in 1..Len(log) : log[k].op # "reflink"
    /\ env.method = "reflink" =>
          \A k \in 1..Len(log) :
              log[k].op = "copyfile" =>
                  \E j \in 1..(k - 1) : log[j] = [op |-> "reflink", path |-> log[k].path]

\* The tree at r holds everything the destination held when the conversion
\* started: each entry with its kind, its content and, for a link, its target.
CompleteCopyAt(r) ==
    /\ IsDirKind(fs, r)
    /\ \A q \in Below(fs1, cv.dest) :
          /\ Exists(fs, Moved(q, cv.dest, r))
          /\ fs[Moved(q, cv.dest, r)].kind = fs1[q].kind
          /\ fs[Moved(q, cv.dest, r)].data = fs1[q].data
          /\ fs[Moved(q, cv.dest, r)].target = fs1[q].target

\* C18: in every state of a conversion, and after it has ended in whatever
\* way, a complete copy of what the directory held is at the destination or
\* at the backup path; once the delete of the backup tree has been issued the
\* destination is the subvolume that holds it.
C18_DataSafety ==
    (idx >= 1 /\ cv.temp # <<>>) =>
        /\ CompleteCopyAt(cv.dest) \/ CompleteCopyAt(Append(Parent(cv.dest), OldName))
        /\ "rmtree" \in LastCallOps =>
              IsSubvolRoot(fs, cv.dest) /\ CompleteCopyAt(cv.dest)

C20_SecondRunChangesNothing ==
    run = 2 =>
        /\ err = ""
        /\ fs = fs0
        /\ \A k \in 1..Len(log) : log[k].op = "restore_subvol"
        /\ pc = "done" => Calls = [i \in 1..Len(subvolumes) |-> ListPath(i)]

\* The second run is over; the first had converted a directory (its
\* placeholder is still there) and created a subvolume.
C20_Witness ==
    /\ run = 2
    /\ pc = "done"
    /\ Len(subvolumes) > 1
    /\ Exists(fs, Append(MountRoot, CopyName))
    /\ \E i \in 1..Len(subvolumes) : fs[ListPath(i)] = NewSubvol

==========================================================================
